---- MODULE Spec2Model ----
(***************************************************************************)
(* Model of src/action.js (wait-for-dev-env): the orchestrator run() and   *)
(* its three bounded-retry pollers waitForDeploymentToStart, waitForStatus *)
(* and waitForUrl.                                                         *)
(*                                                                         *)
(* Strings that the code only compares or passes on are TLA+ strings.      *)
(* URLs and URL paths, which the code parses (new URL), are sequences of   *)
(* tokens: a scheme token, a host-name token, an optional port token and   *)
(* path tokens ("/" and segment names).  The empty sequence is the empty   *)
(* string, the value the API gives a status without environment URL.       *)
(***************************************************************************)
EXTENDS Integers, Sequences, FiniteSets, TLC

\* ------------------------------------------------------------------ bounds
\* Largest max_timeout input (seconds) that is enumerated.
MaxTimeoutSec == 3
\* Largest arguments of calculateIterations when it is checked on its own.
MaxCalcTimeout == 7
MaxCalcInterval == 35

\* ------------------------------------------------------- program constants
DefaultMaxTimeout == 60
DefaultCheckInterval == 2
MsPerSecond == 1000
\* Significant bits of a JavaScript number.
MantissaBits == 53

\* ------------------------------------------------------------ URL handling
Schemes == {"https://"}
HostNames == {"preview-42.example.com", "other.example.com"}
Ports == {":8080"}

\* new URL(s) succeeds: s has a scheme and a host name.
IsAbsoluteUrl(s) ==
    /\ Len(s) >= 2
    /\ s[1] \in Schemes
    /\ s[2] \in HostNames

\* new URL(s).host: the host name, with the port when one is given.
URLHost(s) ==
    IF Len(s) >= 3 /\ s[3] \in Ports THEN <<s[2], s[3]>> ELSE <<s[2]>>

\* new URL(s).origin
URLOrigin(s) == <<s[1]>> \o URLHost(s)

\* new URL(s).pathname: an empty path is normalised to "/".
URLPathname(s) ==
    LET rest == SubSeq(s, Len(URLOrigin(s)) + 1, Len(s))
    IN  IF rest = <<>> THEN <<"/">> ELSE rest

\* new URL(s).toString()
URLHref(s) == URLOrigin(s) \o URLPathname(s)

\* The directory of a path name: everything up to and including its last "/".
DirOf(p) ==
    LET slashes == {k \in 1..Len(p) : p[k] = "/"}
    IN  IF slashes = {} THEN <<"/">>
        ELSE SubSeq(p, 1, CHOOSE k \in slashes : \A j \in slashes : j <= k)

\* new URL(path, base) throws unless path is absolute or base is.
CanResolve(path, base) == IsAbsoluteUrl(path) \/ IsAbsoluteUrl(base)

\* Mutant: the URL checked is the string `${base}${path}`.
ResolveUrl_Concat(path, base) == base \o path

\* new URL(path, base).toString(): an absolute path replaces the base, a
\* path starting with "/" replaces the base's path, any other path is
\* resolved against the directory of the base's path.
ResolveUrl(path, base) ==
    IF IsAbsoluteUrl(path) THEN URLHref(path)
    ELSE IF path = <<>> THEN URLHref(base)
    ELSE IF path[1] = "/" THEN URLOrigin(base) \o path
    ELSE URLOrigin(base) \o DirOf(URLPathname(base)) \o path

\* ------------------------------------------------------------------ inputs
\* Raw values of the `token` input: absent, blank, supplied.
TokenInputs == {"", " ", "ghp_token"}
\* Raw values of the `allow_inactive` input.
AllowInactiveInputs == {"", "false", "true"}
\* Number(max_timeout input); the input is supplied.
MaxTimeoutInputs == 1..MaxTimeoutSec
\* Number(check_interval input) in seconds; 0 is an absent input.
CheckIntervalInputs == {0, 1}
\* Raw values of the `path` input; <<>> is an absent input.
PathInputs == {<<>>, <<"/", "health">>, <<"health">>}
\* The `actor_name` input.
ActorName == "bot-x"
CommitSha == "abc123"

\* core.getInput trims the value it returns.
Trim(s) == IF s = " " THEN "" ELSE s
\* Boolean(s) of a string: every non-empty string is true.
ToBoolean(s) == s # ""
\* `Number(x) || d`
NumberOr(n, d) == IF n = 0 THEN d ELSE n
\* `x || d` for a string of tokens
PathOr(p, d) == IF p = <<>> THEN d ELSE p

\* ------------------------------------------------ double-precision division
\* JavaScript numbers are IEEE-754 doubles: a quotient is rounded to
\* MantissaBits significant bits, to nearest, ties to even.  A double d is
\* the record [hi, lo, exp] of value
\*     (2^(MantissaBits-1) + d.hi * Limb + d.lo) * 2^(d.exp - (MantissaBits-1))
\* with 0 <= d.hi, d.lo < Limb.  The arithmetic is exact for intervals below
\* 2^18 ms and quotients below 2^17.
DigitBits == (MantissaBits - 1) \div 4
Digit == 2^DigitBits
Limb == Digit * Digit

\* The element of a set of one element.
Only(S) == CHOOSE x \in S : TRUE

\* e is the binary exponent of a / b: b * 2^e <= a < b * 2^(e+1).
HasExponent(a, b, e) ==
    IF e >= 0
    THEN b * 2^e <= a /\ a < b * 2^(e + 1)
    ELSE b <= a * 2^(-e) /\ a * 2^(-e) < 2 * b

\* The number of bits of n: 2^(len-1) <= n < 2^len, and 0 for n = 0.
BitLength(n) ==
    CHOOSE len \in 0..(2 * DigitBits) :
        n < 2^len /\ (len = 0 \/ 2^(len - 1) <= n)

\* The double nearest to a / b, whose exponent is e: long division, one
\* digit of DigitBits bits at a time, then the rounding of the remainder.
RoundedQuotient(a, b, e) ==
    LET num == IF e < 0 THEN a * 2^(-e) ELSE a
        den == IF e > 0 THEN b * 2^e ELSE b
        d1  == ((num - den) * Digit) \div den
        r1  == ((num - den) * Digit) % den
        d2  == (r1 * Digit) \div den
        r2  == (r1 * Digit) % den
        d3  == (r2 * Digit) \div den
        r3  == (r2 * Digit) % den
        d4  == (r3 * Digit) \div den
        r4  == (r3 * Digit) % den
        hi  == d1 * Digit + d2
        lo  == d3 * Digit + d4
        roundUp == 2 * r4 > den \/ (2 * r4 = den /\ d4 % 2 = 1)
    IN  IF ~roundUp THEN [hi |-> hi, lo |-> lo, exp |-> e]
        ELSE IF lo + 1 < Limb THEN [hi |-> hi, lo |-> lo + 1, exp |-> e]
        ELSE IF hi + 1 < Limb THEN [hi |-> hi + 1, lo |-> 0, exp |-> e]
        ELSE [hi |-> 0, lo |-> 0, exp |-> e + 1]

\* a / b in doubles, for integers a, b > 0.
DoubleQuotient(a, b) ==
    Only({ RoundedQuotient(a, b, e) :
             e \in { x \in (-DigitBits)..DigitBits : HasExponent(a, b, x) } })

\* c times the mantissa of d, exactly:
\* top * 2^(MantissaBits-1) + hi * Limb + lo.
Times(c, d) ==
    LET p1 == c * (d.lo % Digit)
        p2 == c * (d.lo \div Digit) + (p1 \div Digit)
        p3 == c * (d.hi % Digit) + (p2 \div Digit)
        p4 == c * (d.hi \div Digit) + (p3 \div Digit)
    IN  [top |-> c + (p4 \div Digit),
         hi  |-> (p4 % Digit) * Digit + (p3 % Digit),
         lo  |-> (p2 % Digit) * Digit + (p1 % Digit)]

\* Math.floor(t / d) for an integer t >= 0 and a double d.  k is the floor
\* of the exact quotient when k * d <= t < (k + 1) * d; the double quotient
\* is k + 1 instead when the exact quotient lies within half a unit in the
\* last place below k + 1 (a tie goes to k + 1, whose mantissa is even).
FloorOfQuotient(t, d) ==
    LET shift == IF d.exp > 0 THEN d.exp ELSE 0
        A == IF d.exp < 0 THEN t * 2^(-d.exp) ELSE t
        B == 2^shift
        AtMost(k) == LET p == Times(k * B, d)
                     IN  p.top < A \/ (p.top = A /\ p.hi = 0 /\ p.lo = 0)
        HalfUlp(k) ==
            (Limb + d.hi)
                \div 2^(MantissaBits + 1 - 2 * DigitBits - BitLength(k) - shift)
        RoundsUp(k) == LET above == Times((k + 1) * B, d)
                       IN  /\ above.top = A
                           /\ above.hi = 0
                           /\ above.lo <= HalfUlp(k)
    IN  Only({ IF RoundsUp(k) THEN k + 1 ELSE k :
                 k \in { j \in 0..(A \div B) : AtMost(j) /\ ~AtMost(j + 1) } })

\* Mutant: at least one iteration, Math.max(1, Math.floor(...)).
calculateIterations_AtLeastOne(maxTimeoutSec, checkIntervalInMilliseconds) ==
    Only({ IF FloorOfQuotient(maxTimeoutSec, seconds) < 1
           THEN 1
           ELSE FloorOfQuotient(maxTimeoutSec, seconds) :
             seconds \in { DoubleQuotient(checkIntervalInMilliseconds,
                                          MsPerSecond) } })

\* calculateIterations: Math.floor(maxTimeoutSec / (ms / 1000)).  The inner
\* quotient is computed first, as a value, and then divided into
\* maxTimeoutSec.
calculateIterations(maxTimeoutSec, checkIntervalInMilliseconds) ==
    Only({ FloorOfQuotient(maxTimeoutSec, seconds) :
             seconds \in { DoubleQuotient(checkIntervalInMilliseconds,
                                          MsPerSecond) } })

\* ---------------------------------------------------------------- messages
MsgTokenRequired == "Input required and not supplied: token"
MsgTokenBlank == "Required field token was not provided"
MsgNoAuth == "Parameter token or opts.auth is required"
MsgNoPrNumber == "No pull request number was found"
MsgPrInfo == "Could not get information about the current pull request"
MsgPrRequest == "pulls.get request failed"
MsgNoSha == "Unable to determine SHA. Exiting..."
MsgNoDeployment == "no deployment found, exiting..."
MsgStatusTimeout ==
    "Timeout reached: Unable to wait for an deployment to be successful"
MsgUrlTimeout == "Timeout reached: Unable to connect to"
MsgNoTargetUrl == "no target_url found in the status check"
MsgTypeError ==
    "Cannot read properties of undefined (reading 'environment_url')"
MsgInvalidUrl == "Invalid URL"

\* ------------------------------------------------------------------- state
Stages == {"discover", "status", "url"}

VARIABLES
    pc,          \* position of run()
    token,       \* GITHUB_TOKEN
    allowInactiveInput, \* core.getInput('allow_inactive')
    allowInactive, \* ALLOW_INACTIVE
    maxTimeout,  \* MAX_TIMEOUT (seconds)
    checkInterval, \* CHECK_INTERVAL_IN_MS
    path,        \* PATH
    sha,         \* the resolved commit, "" while unresolved
    iterations,  \* the running poller's iteration count
    i,           \* the running poller's loop counter
    deployment,  \* <<>> (null) or <<d>>: what waitForDeploymentToStart returned
    status,      \* <<>> (undefined) or <<s>>: what waitForStatus returned
    failed,      \* the messages given to core.setFailed, in order
    outputs,     \* the core.setOutput calls, in order
    resp,        \* the response of the latest external call
    hist,        \* the results of the running poller's attempts so far
    attempts,    \* per poller: external calls made
    sleeps,      \* per poller: wait() calls made
    pullsGets,   \* pulls.get calls made
    outcome,     \* per poller: the outcomes it produced, in order
    scen         \* history: every attempt so far followed the end-to-end scenario

vars == <<pc, token, allowInactiveInput, allowInactive, maxTimeout,
          checkInterval, path, sha, iterations, i, deployment, status,
          failed, outputs, resp, hist, attempts, sleeps, pullsGets, outcome,
          scen>>

inputVars == <<token, allowInactiveInput, allowInactive, maxTimeout,
               checkInterval, path>>
loopVars == <<iterations, i, hist>>
callVars == <<attempts, sleeps, pullsGets>>

NoResp == [op |-> "", err |-> "", data |-> <<>>, uri |-> <<>>]

\* The end-to-end scenario: what the k-th external call of a poller gives.
\* Discovery lists nothing on attempts 1-2 and a deployment 42 of the actor
\* as first match on attempt 3; the latest status is pending on attempt 1
\* and success with the preview URL on attempt 2; the GET of the preview
\* URL's root fails once and then succeeds.
ScenarioStep(stage, k, r) ==
    CASE stage = "discover" ->
            IF k \in {1, 2} THEN r.err = "" /\ r.data = <<>>
            ELSE /\ k = 3
                 /\ r.err = ""
                 /\ \E n \in 1..Len(r.data) :
                      /\ r.data[n] = [id |-> 42, creator |-> "bot-x"]
                      /\ \A j \in 1..(n - 1) : r.data[j].creator # "bot-x"
      [] stage = "status" ->
            IF k = 1
            THEN r.err = "" /\ r.data # <<>> /\ r.data[1].state = "pending"
            ELSE /\ k = 2
                 /\ r.err = ""
                 /\ r.data # <<>>
                 /\ r.data[1] = [state |-> "success",
                                 environment_url |->
                                     <<"https://", "preview-42.example.com">>]
      [] stage = "url" ->
            /\ r.uri = <<"https://", "preview-42.example.com", "/">>
            /\ IF k = 1 THEN r.err # "" ELSE k = 2 /\ r.err = ""

Init ==
    /\ pc = "start"
    /\ token = ""
    /\ allowInactiveInput = ""
    /\ allowInactive = FALSE
    /\ maxTimeout = 0
    /\ checkInterval = 0
    /\ path = <<>>
    /\ sha = ""
    /\ iterations = 0
    /\ i = 0
    /\ deployment = <<>>
    /\ status = <<>>
    /\ failed = <<>>
    /\ outputs = <<>>
    /\ resp = NoResp
    /\ hist = <<>>
    /\ attempts = [s \in Stages |-> 0]
    /\ sleeps = [s \in Stages |-> 0]
    /\ pullsGets = 0
    /\ outcome = [s \in Stages |-> <<>>]
    /\ scen = TRUE

\* run, lines 222-236: read the inputs and build the API client.
\* core.getInput('token', {required: true}) throws on an absent input; a
\* blank one is trimmed to '', reported, and github.getOctokit('') throws.
\* Both exceptions end in the catch of line 315.
Start ==
    /\ pc = "start"
    /\ \E t \in TokenInputs, a \in AllowInactiveInputs, m \in MaxTimeoutInputs,
          c \in CheckIntervalInputs, p \in PathInputs :
        IF t = ""
        THEN /\ failed' = Append(failed, MsgTokenRequired)
             /\ pc' = "done"
             /\ UNCHANGED inputVars
        ELSE /\ token' = Trim(t)
             /\ maxTimeout' = NumberOr(m, DefaultMaxTimeout)
             /\ allowInactiveInput' = a
             /\ allowInactive' = ToBoolean(a)
             /\ path' = PathOr(p, <<"/">>)
             /\ checkInterval' = NumberOr(c, DefaultCheckInterval) * MsPerSecond
             /\ IF Trim(t) = ""
                THEN /\ failed' = failed \o <<MsgTokenBlank, MsgNoAuth>>
                     /\ pc' = "done"
                ELSE /\ failed' = failed
                     /\ pc' = "resolveSha"
    /\ UNCHANGED <<sha, deployment, status, outputs, resp, outcome, scen>>
    /\ UNCHANGED <<loopVars, callVars>>

\* ------------------------------------------------------- commit resolution
\* The triggering event: github.context.payload.pull_request (with its
\* number; 0 is an absent number) or github.context.sha ("" is absent).
Contexts ==
    { [pr |-> TRUE,  number |-> 7, sha |-> ""],
      [pr |-> TRUE,  number |-> 0, sha |-> ""],
      [pr |-> FALSE, number |-> 0, sha |-> CommitSha],
      [pr |-> FALSE, number |-> 0, sha |-> ""] }

\* What octokit.rest.pulls.get gives: a rejection, or a response with an
\* HTTP status and the head commit.
PullResponses ==
    { [err |-> TRUE,  status |-> 0,   sha |-> ""],
      [err |-> FALSE, status |-> 200, sha |-> CommitSha],
      [err |-> FALSE, status |-> 202, sha |-> CommitSha] }

\* Mutant: one loop counter for the whole run, which a poller does not
\* reset when it starts.
EnterLoop_SharedCounter ==
    /\ iterations' = calculateIterations(maxTimeout, checkInterval)
    /\ i' = i
    /\ hist' = <<>>

\* Entering a poller: calculateIterations is evaluated once, before the loop.
EnterLoop ==
    /\ iterations' = calculateIterations(maxTimeout, checkInterval)
    /\ i' = 0
    /\ hist' = <<>>

\* Mutant: the loop condition `i <= iterations`.
LoopRuns_Inclusive(k, n) == k <= n

\* The loop condition of the three pollers.
LoopRuns(k, n) == k < n

\* Mutant: lines 258-261 without the return of line 260.
ResolveSha_NoReturn ==
    /\ pc = "resolveSha"
    /\ \E ctx \in Contexts, r \in PullResponses :
        IF ctx.pr
        THEN IF ctx.number = 0
             THEN \* getShaForPullRequest reports and returns undefined
                  /\ failed' = failed \o <<MsgNoPrNumber, MsgNoSha>>
                  /\ pc' = "done"
                  /\ UNCHANGED <<sha, pullsGets, resp, loopVars>>
             ELSE /\ pullsGets' = pullsGets + 1
                  /\ resp' = [NoResp EXCEPT !.op = "pulls.get",
                                  !.err = IF r.err THEN "error" ELSE ""]
                  /\ IF r.err
                     THEN \* the rejection is caught at line 315
                          /\ failed' = Append(failed, MsgPrRequest)
                          /\ pc' = "done"
                          /\ UNCHANGED <<sha, loopVars>>
                     ELSE IF r.status # 200
                     THEN /\ failed' = failed \o <<MsgPrInfo, MsgNoSha>>
                          /\ pc' = "done"
                          /\ UNCHANGED <<sha, loopVars>>
                     ELSE /\ sha' = r.sha
                          /\ failed' = failed
                          /\ pc' = "discover"
                          /\ EnterLoop
        ELSE IF ctx.sha # ""
             THEN /\ sha' = ctx.sha
                  /\ failed' = failed
                  /\ pc' = "discover"
                  /\ EnterLoop
                  /\ UNCHANGED <<pullsGets, resp>>
             ELSE /\ failed' = Append(failed, MsgNoSha)
                  /\ pc' = "discover"
                  /\ EnterLoop
                  /\ UNCHANGED <<sha, pullsGets, resp>>
    /\ UNCHANGED <<inputVars, deployment, status, outputs, attempts, sleeps,
                   outcome, scen>>

\* run, lines 245-261, with getShaForPullRequest, lines 193-217.
ResolveSha ==
    /\ pc = "resolveSha"
    /\ \E ctx \in Contexts, r \in PullResponses :
        IF ctx.pr
        THEN IF ctx.number = 0
             THEN \* getShaForPullRequest reports and returns undefined
                  /\ failed' = failed \o <<MsgNoPrNumber, MsgNoSha>>
                  /\ pc' = "done"
                  /\ UNCHANGED <<sha, pullsGets, resp, loopVars>>
             ELSE /\ pullsGets' = pullsGets + 1
                  /\ resp' = [NoResp EXCEPT !.op = "pulls.get",
                                  !.err = IF r.err THEN "error" ELSE ""]
                  /\ IF r.err
                     THEN \* the rejection is caught at line 315
                          /\ failed' = Append(failed, MsgPrRequest)
                          /\ pc' = "done"
                          /\ UNCHANGED <<sha, loopVars>>
                     ELSE IF r.status # 200
                     THEN /\ failed' = failed \o <<MsgPrInfo, MsgNoSha>>
                          /\ pc' = "done"
                          /\ UNCHANGED <<sha, loopVars>>
                     ELSE /\ sha' = r.sha
                          /\ failed' = failed
                          /\ pc' = "discover"
                          /\ EnterLoop
        ELSE IF ctx.sha # ""
             THEN /\ sha' = ctx.sha
                  /\ failed' = failed
                  /\ pc' = "discover"
                  /\ EnterLoop
                  /\ UNCHANGED <<pullsGets, resp>>
             ELSE /\ failed' = Append(failed, MsgNoSha)
                  /\ pc' = "done"
                  /\ UNCHANGED <<sha, pullsGets, resp, loopVars>>
    /\ UNCHANGED <<inputVars, deployment, status, outputs, attempts, sleeps,
                   outcome, scen>>

\* ------------------------------------------------------ deployment discovery
Dep(id, login) == [id |-> id, creator |-> login]

\* What octokit.rest.repos.listDeployments gives: a rejection, or a list.
DeploymentResponses ==
    { [err |-> TRUE,  data |-> <<>>],
      [err |-> FALSE, data |-> <<>>],
      [err |-> FALSE, data |-> <<Dep(41, "alice")>>],
      [err |-> FALSE,
       data |-> <<Dep(41, "alice"), Dep(42, ActorName), Dep(43, ActorName)>>] }

\* Mutant: the last deployment of the actor is taken.
FindDeployment_Last(data, actorName) ==
    LET hits == {k \in 1..Len(data) : data[k].creator = actorName}
    IN  IF Len(data) > 0 /\ hits # {}
        THEN <<data[CHOOSE k \in hits : \A j \in hits : j <= k]>>
        ELSE <<>>

\* deployments.data.find(d => d.creator.login === actorName), behind the
\* length test of line 162: <<>> when nothing is found, else <<d>>.
FindDeployment(data, actorName) ==
    LET hits == {k \in 1..Len(data) : data[k].creator = actorName}
    IN  IF Len(data) > 0 /\ hits # {}
        THEN <<data[CHOOSE k \in hits : \A j \in hits : k <= j]>>
        ELSE <<>>

DiscoverClass(r) ==
    IF r.err THEN "error"
    ELSE IF FindDeployment(r.data, ActorName) # <<>> THEN "match"
    ELSE IF r.data = <<>> THEN "empty"
    ELSE "nomatch"

\* One pass of the loop body of waitForDeploymentToStart, lines 153-185, up
\* to the wait of line 187; on a match run() goes on to waitForStatus.
DiscoverAttempt ==
    /\ pc = "discover"
    /\ LoopRuns(i, iterations)
    /\ \E r \in DeploymentResponses :
        /\ attempts' = [attempts EXCEPT !["discover"] = @ + 1]
        /\ resp' = [NoResp EXCEPT !.op = "listDeployments",
                        !.err = IF r.err THEN "error" ELSE "",
                        !.data = r.data]
        /\ scen' = (scen /\ ScenarioStep("discover", i + 1, resp'))
        /\ IF ~r.err /\ FindDeployment(r.data, ActorName) # <<>>
           THEN /\ deployment' = FindDeployment(r.data, ActorName)
                /\ outcome' = [outcome EXCEPT !["discover"] = Append(@, "success")]
                /\ pc' = "status"
                /\ EnterLoop
           ELSE /\ hist' = Append(hist, DiscoverClass(r))
                /\ pc' = "discoverWait"
                /\ UNCHANGED <<deployment, outcome, iterations, i>>
    /\ UNCHANGED <<inputVars, sha, status, failed, outputs, sleeps, pullsGets>>

\* Mutant: the wait of line 187 is skipped after the last iteration.
DiscoverWait_NotAfterLast ==
    /\ pc = "discoverWait"
    /\ sleeps' = [sleeps EXCEPT !["discover"] =
                      IF i + 1 < iterations THEN @ + 1 ELSE @]
    /\ i' = i + 1
    /\ pc' = "discover"
    /\ UNCHANGED <<inputVars, sha, iterations, hist, deployment, status, failed,
                   outputs, resp, attempts, pullsGets, outcome, scen>>

\* waitForDeploymentToStart, line 187, and the loop increment.
DiscoverWait ==
    /\ pc = "discoverWait"
    /\ sleeps' = [sleeps EXCEPT !["discover"] = @ + 1]
    /\ i' = i + 1
    /\ pc' = "discover"
    /\ UNCHANGED <<inputVars, sha, iterations, hist, deployment, status, failed,
                   outputs, resp, attempts, pullsGets, outcome, scen>>

\* Mutant: run() without the test of lines 275-278 (the id is read as
\* deployment?.id), so an exhausted discovery is followed by waitForStatus.
DiscoverExhausted_Unchecked ==
    /\ pc = "discover"
    /\ ~LoopRuns(i, iterations)
    /\ outcome' = [outcome EXCEPT !["discover"] = Append(@, "timeout")]
    /\ deployment' = <<>>
    /\ pc' = "status"
    /\ EnterLoop
    /\ UNCHANGED <<inputVars, sha, status, failed, outputs, resp, callVars, scen>>

\* Mutant: lines 275-278 without the return of line 277.
DiscoverExhausted_NoReturn ==
    /\ pc = "discover"
    /\ ~LoopRuns(i, iterations)
    /\ outcome' = [outcome EXCEPT !["discover"] = Append(@, "timeout")]
    /\ deployment' = <<>>
    /\ failed' = Append(failed, MsgNoDeployment)
    /\ pc' = "status"
    /\ EnterLoop
    /\ UNCHANGED <<inputVars, sha, status, outputs, resp, callVars, scen>>

\* waitForDeploymentToStart, line 190 (return null), and run, lines 275-278.
DiscoverExhausted ==
    /\ pc = "discover"
    /\ ~LoopRuns(i, iterations)
    /\ outcome' = [outcome EXCEPT !["discover"] = Append(@, "timeout")]
    /\ deployment' = <<>>
    /\ failed' = Append(failed, MsgNoDeployment)
    /\ pc' = "done"
    /\ UNCHANGED <<inputVars, sha, loopVars, status, outputs, resp, callVars,
                   scen>>

\* ---------------------------------------------------------- deployment status
St(state, url) == [state |-> state, environment_url |-> url]

PreviewUrl == <<"https://", "preview-42.example.com">>
AppUrl == <<"https://", "other.example.com", ":8080", "/", "app", "/">>

\* The environment_url values of a status: empty (the API's value of a
\* status without one), a host without scheme, and two well-formed URLs.
EnvUrls == { <<>>, <<"preview-42.example.com">>, PreviewUrl, AppUrl }

\* What octokit.rest.repos.listDeploymentStatuses gives: a rejection, or a
\* list of statuses, most recent first.
StatusResponses ==
    { [err |-> TRUE,  data |-> <<>>],
      [err |-> FALSE, data |-> <<>>],
      [err |-> FALSE, data |-> <<St("pending", <<>>)>>],
      [err |-> FALSE, data |-> <<St("pending", <<>>), St("success", PreviewUrl)>>],
      [err |-> FALSE, data |-> <<St("inactive", PreviewUrl), St("success", AppUrl)>>] }
    \cup { [err |-> FALSE, data |-> <<St("success", u), St("pending", <<>>)>>] :
             u \in EnvUrls }

\* Mutant: any listed status with state success counts.
StatusDecision_AnySuccess(data, allow) ==
    IF ~(Len(data) > 0) THEN "empty"
    ELSE IF allow = TRUE /\ data[1].state = "inactive" THEN "return"
    ELSE IF \E k \in 1..Len(data) : data[k].state = "success" THEN "return"
    ELSE "notready"

\* waitForStatus, lines 79-98: what one attempt makes of the listed
\* statuses: "return" (the status data[0] is returned) or the StatusError
\* it throws.
StatusDecision(data, allow) ==
    IF ~(Len(data) > 0) THEN "empty"
    ELSE IF allow = TRUE /\ data[1].state = "inactive" THEN "return"
    ELSE IF data[1].state # "success" THEN "notready"
    ELSE IF data[1].state = "success" THEN "return"
    ELSE "unknown"

\* Mutant: the catch of waitForStatus rethrows what is no StatusError, so a
\* rejected fetch ends in the catch of run().
StatusAttempt_Rethrow ==
    /\ pc = "status"
    /\ LoopRuns(i, iterations)
    /\ \E r \in StatusResponses :
        /\ attempts' = [attempts EXCEPT !["status"] = @ + 1]
        /\ resp' = [NoResp EXCEPT !.op = "listDeploymentStatuses",
                        !.err = IF r.err THEN "error" ELSE "",
                        !.data = r.data]
        /\ scen' = (scen /\ ScenarioStep("status", i + 1, resp'))
        /\ IF r.err
           THEN /\ failed' = Append(failed, "request failed")
                /\ hist' = Append(hist, "error")
                /\ pc' = "done"
                /\ UNCHANGED <<status, outcome>>
           ELSE IF StatusDecision(r.data, allowInactive) = "return"
           THEN /\ status' = <<r.data[1]>>
                /\ outcome' = [outcome EXCEPT !["status"] = Append(@, "success")]
                /\ hist' = Append(hist, "ok")
                /\ pc' = "extract"
                /\ failed' = failed
           ELSE /\ hist' = Append(hist, StatusDecision(r.data, allowInactive))
                /\ pc' = "statusWait"
                /\ UNCHANGED <<status, outcome, failed>>
    /\ UNCHANGED <<inputVars, sha, iterations, i, deployment, outputs,
                   sleeps, pullsGets>>

\* One pass of the loop body of waitForStatus, lines 72-113, up to the wait
\* of line 114.
StatusAttempt ==
    /\ pc = "status"
    /\ LoopRuns(i, iterations)
    /\ \E r \in StatusResponses :
        /\ attempts' = [attempts EXCEPT !["status"] = @ + 1]
        /\ resp' = [NoResp EXCEPT !.op = "listDeploymentStatuses",
                        !.err = IF r.err THEN "error" ELSE "",
                        !.data = r.data]
        /\ scen' = (scen /\ ScenarioStep("status", i + 1, resp'))
        /\ IF ~r.err /\ StatusDecision(r.data, allowInactive) = "return"
           THEN /\ status' = <<r.data[1]>>
                /\ outcome' = [outcome EXCEPT !["status"] = Append(@, "success")]
                /\ hist' = Append(hist, "ok")
                /\ pc' = "extract"
           ELSE /\ hist' = Append(hist, IF r.err THEN "error"
                                        ELSE StatusDecision(r.data, allowInactive))
                /\ pc' = "statusWait"
                /\ UNCHANGED <<status, outcome>>
    /\ UNCHANGED <<inputVars, sha, iterations, i, deployment, failed, outputs,
                   sleeps, pullsGets>>

\* waitForStatus, line 114, and the loop increment.
StatusWait ==
    /\ pc = "statusWait"
    /\ sleeps' = [sleeps EXCEPT !["status"] = @ + 1]
    /\ i' = i + 1
    /\ pc' = "status"
    /\ UNCHANGED <<inputVars, sha, iterations, hist, deployment, status, failed,
                   outputs, resp, attempts, pullsGets, outcome, scen>>

\* waitForStatus, lines 117-119: the timeout is reported and the function
\* ends without a return value.
StatusExhausted ==
    /\ pc = "status"
    /\ ~LoopRuns(i, iterations)
    /\ outcome' = [outcome EXCEPT !["status"] = Append(@, "timeout")]
    /\ failed' = Append(failed, MsgStatusTimeout)
    /\ status' = <<>>
    /\ pc' = "extract"
    /\ UNCHANGED <<inputVars, sha, loopVars, deployment, outputs, resp, callVars,
                   scen>>

\* Mutant: the host is cut out of the string without new URL, and the test
\* of lines 294-297 is missing.
ExtractTarget_Unparsed ==
    /\ pc = "extract"
    /\ IF status = <<>>
       THEN /\ failed' = Append(failed, MsgTypeError)
            /\ pc' = "done"
            /\ UNCHANGED <<outputs, loopVars>>
       ELSE LET targetUrl == status[1].environment_url
            IN  /\ outputs' = outputs \o
                       << [name |-> "url",  value |-> targetUrl],
                          [name |-> "host",
                           value |-> IF IsAbsoluteUrl(targetUrl)
                                     THEN URLHost(targetUrl) ELSE <<>>] >>
                /\ failed' = failed
                /\ pc' = "url"
                /\ EnterLoop
    /\ UNCHANGED <<inputVars, sha, deployment, status, resp, callVars, outcome,
                   scen>>

\* Mutant: run() without the try/catch of lines 220 and 315-317, so what
\* lines 291-292 throw leaves run() unreported.
ExtractTarget_Uncaught ==
    /\ pc = "extract"
    /\ IF status = <<>> \/ ~IsAbsoluteUrl(status[1].environment_url)
       THEN /\ pc' = "crashed"
            /\ UNCHANGED <<failed, outputs, loopVars>>
       ELSE /\ outputs' = outputs \o
                   << [name |-> "url",  value |-> status[1].environment_url],
                      [name |-> "host",
                       value |-> URLHost(status[1].environment_url)] >>
            /\ failed' = failed
            /\ pc' = "url"
            /\ EnterLoop
    /\ UNCHANGED <<inputVars, sha, deployment, status, resp, callVars, outcome,
                   scen>>

\* Mutant: the test of lines 294-297 stands before the host is parsed.
ExtractTarget_CheckFirst ==
    /\ pc = "extract"
    /\ IF status = <<>>
       THEN /\ failed' = Append(failed, MsgTypeError)
            /\ pc' = "done"
            /\ UNCHANGED <<outputs, loopVars>>
       ELSE LET targetUrl == status[1].environment_url
            IN  IF targetUrl = <<>>
                THEN /\ failed' = Append(failed, MsgNoTargetUrl)
                     /\ pc' = "done"
                     /\ UNCHANGED <<outputs, loopVars>>
                ELSE IF ~IsAbsoluteUrl(targetUrl)
                THEN /\ failed' = Append(failed, MsgInvalidUrl)
                     /\ pc' = "done"
                     /\ UNCHANGED <<outputs, loopVars>>
                ELSE /\ outputs' = outputs \o
                            << [name |-> "url",  value |-> targetUrl],
                               [name |-> "host", value |-> URLHost(targetUrl)] >>
                     /\ failed' = failed
                     /\ pc' = "url"
                     /\ EnterLoop
    /\ UNCHANGED <<inputVars, sha, deployment, status, resp, callVars, outcome,
                   scen>>

\* run, lines 290-307: the target URL and host are taken from the status and
\* given as outputs.  Reading environment_url of an undefined status and
\* new URL of an ill-formed URL throw; the catch of line 315 reports them.
ExtractTarget ==
    /\ pc = "extract"
    /\ IF status = <<>>
       THEN /\ failed' = Append(failed, MsgTypeError)
            /\ pc' = "done"
            /\ UNCHANGED <<outputs, loopVars>>
       ELSE LET targetUrl == status[1].environment_url
            IN  IF ~IsAbsoluteUrl(targetUrl)
                THEN /\ failed' = Append(failed, MsgInvalidUrl)
                     /\ pc' = "done"
                     /\ UNCHANGED <<outputs, loopVars>>
                ELSE IF targetUrl = <<>>
                THEN /\ failed' = Append(failed, MsgNoTargetUrl)
                     /\ pc' = "done"
                     /\ UNCHANGED <<outputs, loopVars>>
                ELSE /\ outputs' = outputs \o
                            << [name |-> "url",  value |-> targetUrl],
                               [name |-> "host", value |-> URLHost(targetUrl)] >>
                     /\ failed' = failed
                     /\ pc' = "url"
                     /\ EnterLoop
    /\ UNCHANGED <<inputVars, sha, deployment, status, resp, callVars, outcome,
                   scen>>

\* ------------------------------------------------------------ URL reachability
\* What axios.get gives: a response, or an error with a response (status
\* outside 2xx), with a request only, or with neither.
GetResults == {"ok", "response", "request", "other"}

\* Mutant: waitForUrl without the return of line 33: after a response the
\* loop goes on with its next pass.
UrlAttempt_NoReturn ==
    /\ pc = "url"
    /\ LoopRuns(i, iterations)
    /\ \E r \in GetResults :
        /\ attempts' = [attempts EXCEPT !["url"] = @ + 1]
        /\ resp' = [NoResp EXCEPT !.op = "GET",
                        !.err = IF r = "ok" THEN "" ELSE r,
                        !.uri = ResolveUrl(path, status[1].environment_url)]
        /\ hist' = Append(hist, r)
        /\ scen' = (scen /\ ScenarioStep("url", i + 1, resp'))
        /\ IF r = "ok"
           THEN /\ outcome' = [outcome EXCEPT !["url"] = Append(@, "success")]
                /\ i' = i + 1
                /\ pc' = "url"
           ELSE /\ pc' = "urlWait"
                /\ UNCHANGED <<outcome, i>>
    /\ UNCHANGED <<inputVars, sha, iterations, deployment, status, failed,
                   outputs, sleeps, pullsGets>>

\* One pass of the loop body of waitForUrl, lines 24-48, up to the wait of
\* line 49.  The URL checked is new URL(path, url).
UrlAttempt ==
    /\ pc = "url"
    /\ LoopRuns(i, iterations)
    /\ LET url == status[1].environment_url
       IN  IF ~CanResolve(path, url)
           THEN /\ resp' = [NoResp EXCEPT !.op = "new URL", !.err = "other"]
                /\ hist' = Append(hist, "other")
                /\ scen' = (scen /\ ScenarioStep("url", i + 1, resp'))
                /\ pc' = "urlWait"
                /\ UNCHANGED <<attempts, outcome>>
           ELSE \E r \in GetResults :
                /\ attempts' = [attempts EXCEPT !["url"] = @ + 1]
                /\ resp' = [NoResp EXCEPT !.op = "GET",
                                !.err = IF r = "ok" THEN "" ELSE r,
                                !.uri = ResolveUrl(path, url)]
                /\ hist' = Append(hist, r)
                /\ scen' = (scen /\ ScenarioStep("url", i + 1, resp'))
                /\ IF r = "ok"
                   THEN /\ outcome' = [outcome EXCEPT !["url"] = Append(@, "success")]
                        /\ pc' = "done"
                   ELSE /\ pc' = "urlWait"
                        /\ UNCHANGED outcome
    /\ UNCHANGED <<inputVars, sha, iterations, i, deployment, status, failed,
                   outputs, sleeps, pullsGets>>

\* waitForUrl, line 49, and the loop increment.
UrlWait ==
    /\ pc = "urlWait"
    /\ sleeps' = [sleeps EXCEPT !["url"] = @ + 1]
    /\ i' = i + 1
    /\ pc' = "url"
    /\ UNCHANGED <<inputVars, sha, iterations, hist, deployment, status, failed,
                   outputs, resp, attempts, pullsGets, outcome, scen>>

\* waitForUrl, line 53.
UrlExhausted ==
    /\ pc = "url"
    /\ ~LoopRuns(i, iterations)
    /\ outcome' = [outcome EXCEPT !["url"] = Append(@, "timeout")]
    /\ failed' = Append(failed, MsgUrlTimeout)
    /\ pc' = "done"
    /\ UNCHANGED <<inputVars, sha, loopVars, deployment, status, outputs, resp,
                   callVars, scen>>

\* ------------------------------------------------------------ specification
Next ==
    \/ Start
    \/ ResolveSha
    \/ DiscoverAttempt
    \/ DiscoverWait
    \/ DiscoverExhausted
    \/ StatusAttempt
    \/ StatusWait
    \/ StatusExhausted
    \/ ExtractTarget
    \/ UrlAttempt
    \/ UrlWait
    \/ UrlExhausted

Spec == Init /\ [][Next]_vars

\* run() is one thread of control and every external call (API call, GET,
\* sleep) returns or raises: a step that can be taken is taken.
FairSpec == Spec /\ WF_vars(Next)

\* calculateIterations on its own: the arguments are any positive integers
\* of the bounded range, and the one step applies the function.
CalcInit ==
    /\ pc = "calc"
    /\ maxTimeout \in 1..MaxCalcTimeout
    /\ checkInterval \in 1..MaxCalcInterval
    /\ token = ""
    /\ allowInactiveInput = ""
    /\ allowInactive = FALSE
    /\ path = <<>>
    /\ sha = ""
    /\ iterations = 0
    /\ i = 0
    /\ deployment = <<>>
    /\ status = <<>>
    /\ failed = <<>>
    /\ outputs = <<>>
    /\ resp = NoResp
    /\ hist = <<>>
    /\ attempts = [s \in Stages |-> 0]
    /\ sleeps = [s \in Stages |-> 0]
    /\ pullsGets = 0
    /\ outcome = [s \in Stages |-> <<>>]
    /\ scen = TRUE

Calculate ==
    /\ pc = "calc"
    /\ iterations' = calculateIterations(maxTimeout, checkInterval)
    /\ pc' = "calculated"
    /\ UNCHANGED <<inputVars, sha, i, deployment, status, failed, outputs,
                   resp, hist, callVars, outcome, scen>>

CalcNext == Calculate

CalcSpec == CalcInit /\ [][CalcNext]_vars

\* ------------------------------------------------------------------ claims
Done == pc = "done"
Succeeded == Done /\ failed = <<>>
OutputNames == {outputs[k].name : k \in 1..Len(outputs)}
\* The iteration count of the run's configuration.
Budget == calculateIterations(maxTimeout, checkInterval)

\* C1: no output is emitted on failure: once core.setFailed has been called,
\* neither the url nor the host output has been set.
C1_NoOutputOnFailure ==
    failed # <<>> => outputs = <<>>

\* C2: each fatal condition the orchestrator names (absent commit, discovery
\* timeout, status timeout, absent environment URL, reachability timeout) is
\* reported once: the run that reports it calls core.setFailed once in all.
ListedFatal ==
    {MsgNoSha, MsgNoDeployment, MsgStatusTimeout, MsgNoTargetUrl, MsgUrlTimeout}

C2_ReportedOnce ==
    (failed # <<>> /\ failed[1] \in ListedFatal) => Len(failed) = 1

\* C3: stage ordering: statuses are fetched only after discovery returned a
\* deployment, a GET is issued only after the status poller returned a
\* status, and a discovery that timed out is reported as a failure and is
\* followed by no status fetch and no GET.
C3_StageOrdering ==
    /\ (attempts["status"] > 0 \/ pc \in {"status", "statusWait"})
          => outcome["discover"] = <<"success">> /\ deployment # <<>>
    /\ (attempts["url"] > 0 \/ pc \in {"url", "urlWait"})
          => outcome["status"] = <<"success">> /\ status # <<>>
    /\ "timeout" \in {outcome["discover"][k] : k \in 1..Len(outcome["discover"])}
          => /\ failed # <<>>
             /\ Done
             /\ attempts["status"] = 0
             /\ attempts["url"] = 0

C3_Witness ==
    /\ Done
    /\ outcome["discover"] = <<"timeout">>
    /\ attempts["discover"] >= 2
    /\ failed = <<MsgNoDeployment>>

\* C4: after the first core.setFailed of a run there is no further API call
\* (pulls.get, listDeployments, listDeploymentStatuses), no GET, no sleep
\* and no core.setOutput.
C4_NothingAfterFailure ==
    [][failed # <<>> =>
          /\ attempts' = attempts
          /\ sleeps' = sleeps
          /\ pullsGets' = pullsGets
          /\ outputs' = outputs]_vars

\* A run goes on after its first failure report (to the handler of line 315).
C4_Witness ==
    /\ Done
    /\ Len(failed) = 2
    /\ failed[1] = MsgStatusTimeout
    /\ attempts["status"] >= 2

\* The host part of a well-formed URL string: what stands between the
\* scheme and the first "/".
HostPart(u) == SubSeq(u, 2, IF Len(u) >= 3 /\ u[3] # "/" THEN 3 ELSE 2)
\* A URL string up to its last "/"; a URL without a path has the path "/".
UpToLastSlash(u) ==
    IF \A k \in 1..Len(u) : u[k] # "/" THEN u \o <<"/">>
    ELSE SubSeq(u, 1, CHOOSE k \in 1..Len(u) :
                         u[k] = "/" /\ \A j \in (k + 1)..Len(u) : u[j] # "/")

ScenarioRan ==
    /\ Done
    /\ scen
    /\ attempts["discover"] = 3
    /\ attempts["status"] = 2
    /\ attempts["url"] = 2

ScenarioResult ==
    ScenarioRan =>
        /\ failed = <<>>
        /\ outputs = << [name |-> "url",
                         value |-> <<"https://", "preview-42.example.com">>],
                        [name |-> "host",
                         value |-> <<"preview-42.example.com">>] >>

C6_ExhaustionIsTimeout ==
    /\ [][/\ (pc = "discover" /\ Len(hist) = Budget) =>
                /\ outcome'["discover"] = <<"timeout">>
                /\ deployment' = <<>>
                /\ attempts' = attempts
          /\ (pc = "status" /\ Len(hist) = Budget) =>
                /\ outcome'["status"] = <<"timeout">>
                /\ status' = <<>>
                /\ failed' = Append(failed, MsgStatusTimeout)
                /\ attempts' = attempts
          /\ (pc = "url" /\ Len(hist) = Budget) =>
                /\ outcome'["url"] = <<"timeout">>
                /\ failed' = Append(failed, MsgUrlTimeout)
                /\ attempts' = attempts]_vars
    /\ [](outcome["status"] = <<"timeout">> =>
              failed # <<>> /\ failed[1] = MsgStatusTimeout)

C6_Witness ==
    /\ pc = "extract"
    /\ outcome["status"] = <<"timeout">>
    /\ Budget >= 2
    /\ attempts["status"] = Budget

FailedSet == {failed[k] : k \in 1..Len(failed)}
DiscoverOver == sha # "" /\ pc \notin {"discover", "discoverWait"}
StatusOver ==
    outcome["discover"] = <<"success">> /\ pc \notin {"status", "statusWait"}
UrlOver == outputs # <<>> /\ pc \notin {"url", "urlWait"}

\* C7: every poller invocation produces exactly one outcome, a returned
\* payload or a timeout signal: none while it runs, one when it is over,
\* and the payload and the timeout report exclude each other.
C7_ExactlyOneOutcome ==
    /\ \A p \in Stages : Len(outcome[p]) <= 1
    /\ Len(outcome["discover"]) = (IF DiscoverOver THEN 1 ELSE 0)
    /\ Len(outcome["status"]) = (IF StatusOver THEN 1 ELSE 0)
    /\ Len(outcome["url"]) = (IF UrlOver THEN 1 ELSE 0)
    /\ DiscoverOver =>
          (outcome["discover"] = <<"success">> <=> deployment # <<>>)
    /\ StatusOver =>
          /\ outcome["status"] = <<"success">> <=> status # <<>>
          /\ outcome["status"] = <<"success">> <=> MsgStatusTimeout \notin FailedSet
    /\ UrlOver =>
          /\ outcome["url"] = <<"success">> <=> MsgUrlTimeout \notin FailedSet
          /\ outcome["url"] = <<"success">> <=> (resp.op = "GET" /\ resp.err = "")

C7_Witness ==
    /\ Done
    /\ outcome["discover"] = <<"success">>
    /\ outcome["status"] = <<"success">>
    /\ outcome["url"] = <<"timeout">>
    /\ attempts["url"] >= 2

\* C8: the status poller decides on the most recent status, data[0], alone:
\* a latest status success is returned at once; a latest status inactive is
\* returned when allowInactive is true and retried when it is false; an
\* empty list, an error and every other latest state are retried.
C8_StatusClassification ==
    [][attempts'["status"] = attempts["status"] + 1 =>
          LET L == resp'.data
              returned == pc' = "extract" /\ status' = <<L[1]>>
              retried == pc' = "statusWait" /\ status' = <<>>
          IN  /\ resp'.op = "listDeploymentStatuses"
              /\ (resp'.err = "" /\ L # <<>> /\ L[1].state = "success")
                    => returned
              /\ (resp'.err = "" /\ L # <<>> /\ L[1].state = "inactive")
                    => IF allowInactive THEN returned ELSE retried
              /\ (resp'.err # "" \/ L = <<>>
                    \/ L[1].state \notin {"success", "inactive"})
                    => retried]_vars

\* An inactive latest status, with an older success behind it, is returned
\* on attempt 1.
C8_Witness ==
    /\ pc = "extract"
    /\ attempts["status"] = 1
    /\ status # <<>>
    /\ status[1].state = "inactive"
    /\ Len(resp.data) = 2
    /\ resp.data[2].state = "success"

\* C9: a discovery attempt whose listing holds deployments of the actor
\* returns the first of them in list order and ends the poller; any other
\* attempt returns nothing; after a return no further listing is made.
C9_FirstMatch ==
    [][/\ attempts'["discover"] = attempts["discover"] + 1 =>
             LET L == resp'.data
                 hits == {k \in 1..Len(L) : L[k].creator = ActorName}
             IN  IF resp'.err = "" /\ hits # {}
                 THEN /\ \E k \in hits :
                           /\ \A j \in 1..(k - 1) : j \notin hits
                           /\ deployment' = <<L[k]>>
                      /\ pc' \notin {"discover", "discoverWait"}
                 ELSE /\ deployment' = <<>>
                      /\ pc' = "discoverWait"
       /\ deployment # <<>> =>
             /\ attempts'["discover"] = attempts["discover"]
             /\ deployment' = deployment]_vars

\* The second of three entries, the first of two of the actor, is returned
\* with iterations left.
C9_Witness ==
    /\ pc = "status"
    /\ resp.op = "listDeployments"
    /\ Len(resp.data) = 3
    /\ deployment = <<resp.data[2]>>
    /\ resp.data[3].creator = ActorName
    /\ attempts["discover"] >= 2
    /\ attempts["discover"] < Budget

WaitPcOf(p) ==
    CASE p = "discover" -> "discoverWait"
      [] p = "status" -> "statusWait"
      [] p = "url" -> "urlWait"

\* The response r is one the poller p returns on.
SuccessResponse(p, r) ==
    /\ r.err = ""
    /\ CASE p = "discover" ->
               \E k \in 1..Len(r.data) : r.data[k].creator = ActorName
         [] p = "status" -> r.data # <<>> /\ r.data[1].state = "success"
         [] p = "url" -> TRUE

\* C10: an error of the external call on attempt k < n stays in the poller
\* (nothing is reported, no outcome is produced), is followed by one sleep
\* and one step of the loop counter, and then by attempt k+1; when that
\* attempt gets a successful response the poller returns the success outcome.
C10_ErrorsRetried ==
    [][\A p \in Stages :
          /\ (attempts'[p] = attempts[p] + 1 /\ resp'.err # "") =>
                /\ failed' = failed
                /\ outcome' = outcome
                /\ pc' = WaitPcOf(p)
          /\ (pc = WaitPcOf(p) /\ resp.err # "") =>
                /\ sleeps'[p] = sleeps[p] + 1
                /\ i' = i + 1
                /\ iterations' = iterations
                /\ failed' = failed
                /\ pc' = p
          /\ (pc = p /\ resp.err # "" /\ Len(hist) < Budget) =>
                /\ attempts'[p] = attempts[p] + 1
                /\ Len(hist) = i
                /\ SuccessResponse(p, resp') =>
                      outcome'[p] = <<"success">> /\ failed' = failed]_vars

\* A rejected status fetch on attempt 2 of 3 is followed by a fetch that
\* succeeds.
C10_Witness ==
    /\ pc = "extract"
    /\ Budget = 3
    /\ hist = <<"notready", "error", "ok">>
    /\ outcome["status"] = <<"success">>
    /\ failed = <<>>

\* The status poller returned a status without environment URL.
NoEnvUrl == status # <<>> /\ status[1].environment_url = <<>>
TimeoutMsgs == {MsgNoDeployment, MsgStatusTimeout, MsgUrlTimeout}

\* C11: a returned status without environment URL ends the run Failed: a
\* failure is reported whose message is none of the timeout messages, no
\* output is set and no GET is made.
C11_MissingUrlIsFatal ==
    /\ NoEnvUrl =>
          /\ pc \in {"extract", "done"}
          /\ outputs = <<>>
          /\ attempts["url"] = 0
    /\ (NoEnvUrl /\ Done) =>
          /\ failed # <<>>
          /\ \A k \in 1..Len(failed) : failed[k] \notin TimeoutMsgs

C11_Witness ==
    /\ Done
    /\ NoEnvUrl
    /\ status[1].state = "success"
    /\ attempts["status"] >= 2

\* C12: a run that resolves no commit fails at once: a failure is reported,
\* pulls.get is called at most once, and no poller makes an attempt or sleeps.
C12_NoShaIsFatal ==
    /\ (sha = "" /\ pc \notin {"start", "resolveSha"}) =>
          /\ Done
          /\ failed # <<>>
          /\ pullsGets <= 1
          /\ \A p \in Stages : attempts[p] = 0 /\ sleeps[p] = 0 /\ outcome[p] = <<>>
    /\ MsgNoSha \in FailedSet => sha = "" /\ Done

C12_Witness ==
    /\ Done
    /\ failed = <<MsgNoSha>>
    /\ pullsGets = 0

\* C13: for positive integers maxTimeoutSeconds and intervalMilliseconds,
\* calculateIterations is floor(maxTimeoutSeconds * 1000 / intervalMilliseconds)
\* and is a non-negative integer.
C13_IterationsFormula ==
    pc = "calculated" =>
        /\ iterations = (maxTimeout * MsPerSecond) \div checkInterval
        /\ iterations \in Nat

\* C14: the status poller returns a latest status `inactive` as its success
\* only when the allow_inactive input is "true"; with the input absent
\* (empty) or "false" an inactive status is never accepted.
C14_InactiveOnlyIfEnabled ==
    (status # <<>> /\ status[1].state = "inactive") =>
        allowInactiveInput = "true"

Positions ==
    {"start", "resolveSha", "discover", "discoverWait", "status",
     "statusWait", "extract", "url", "urlWait", "done"}

\* C15: every run reaches a terminal state, where it has either reported a
\* failure or got a successful GET (Succeeded); run() is never left by an
\* exception; and a poller's loop is left only by an attempt that returns
\* the success outcome or with the iteration budget used up.
C15_Terminates ==
    /\ <>Done
    /\ [](pc \in Positions)
    /\ [](Done => (failed # <<>> \/ outcome["url"] = <<"success">>))
    /\ [][\A p \in Stages :
              (pc \in {p, WaitPcOf(p)} /\ pc' \notin {p, WaitPcOf(p)}) =>
                  \/ /\ pc = p
                     /\ attempts'[p] = attempts[p] + 1
                     /\ outcome'[p] = <<"success">>
                  \/ /\ pc = p
                     /\ i = iterations
                     /\ Len(hist) = Budget
                     /\ attempts' = attempts
                     /\ outcome'[p] = <<"timeout">>]_vars

\* A run that ended Succeeded after retries in discovery and in the GET.
C15_Witness ==
    /\ Done
    /\ failed = <<>>
    /\ attempts["discover"] >= 2
    /\ attempts["url"] >= 2

SleepsFollowFailures ==
    \A p \in Stages :
        /\ sleeps'[p] # sleeps[p] =>
              /\ pc = WaitPcOf(p)
              /\ sleeps'[p] = sleeps[p] + 1
              /\ Len(hist) = i + 1
              /\ sleeps[p] = i
              /\ pc' = p
              /\ i' = i + 1
        /\ (pc = p /\ Len(hist') = Len(hist) + 1 /\ outcome'[p] = <<>>) =>
              /\ pc' = WaitPcOf(p)
              /\ sleeps'[p] = sleeps[p]
              /\ sleeps[p] = Len(hist)
        /\ outcome[p] # <<>> => sleeps'[p] = sleeps[p]
        /\ (pc = p /\ outcome'[p] = <<"success">>) =>
              /\ sleeps'[p] = sleeps[p]
              /\ pc' # WaitPcOf(p)

\* C17: a poller suspends only between two of its own attempts: every sleep
\* is preceded by a failed attempt and followed by another attempt of the
\* same poller, consecutive attempts are separated by exactly one sleep, and
\* no sleep happens after a successful attempt or after the final attempt.
C17_SleepOnlyBetweenAttempts ==
    [][/\ SleepsFollowFailures
       /\ \A p \in Stages :
             sleeps'[p] # sleeps[p] => LoopRuns(i', iterations')]_vars

\* C17, amended: every sleep is preceded by a failed attempt of the same
\* poller and every failed attempt is followed by exactly one sleep, the
\* final one included: the sleep after the N-th failed attempt is followed
\* by the poller's timeout outcome instead of another attempt, so a poller
\* that times out has slept N times.
C17_SleepAfterEveryFailure ==
    [][/\ SleepsFollowFailures
       /\ \A p \in Stages :
             /\ (sleeps'[p] # sleeps[p] /\ ~LoopRuns(i', iterations')) =>
                   i' = iterations'
             /\ (pc = p /\ ~LoopRuns(i, iterations)) =>
                   /\ outcome'[p] = <<"timeout">>
                   /\ sleeps[p] = iterations
                   /\ Len(hist) = iterations
                   /\ sleeps'[p] = sleeps[p]]_vars

\* The reachability poller timed out after N >= 2 failed attempts and N
\* sleeps.
C17_Witness ==
    /\ Done
    /\ outcome["url"] = <<"timeout">>
    /\ iterations >= 2
    /\ sleeps["url"] = iterations
    /\ attempts["url"] = iterations

\* The inputs are read and max_timeout (seconds) is smaller than
\* check_interval (seconds).
TimeoutBelowInterval ==
    checkInterval > 0 /\ maxTimeout * MsPerSecond < checkInterval

\* C18: when max_timeout is smaller than check_interval the iteration count
\* is 0; a poller entered with the count 0 gives its timeout outcome at once,
\* without an attempt and without a sleep; so the run makes no
\* listDeployments call (nor any later call), sets no output, and once the
\* commit is resolved it ends Failed with 'no deployment found, exiting...'
\* only, whatever deployments exist.
C18_ZeroBudget ==
    /\ [](TimeoutBelowInterval =>
              /\ Budget = 0
              /\ \A p \in Stages : attempts[p] = 0 /\ sleeps[p] = 0
              /\ pc \in {"resolveSha", "discover", "done"}
              /\ pc = "discover" => iterations = 0 /\ i = 0
              /\ outputs = <<>>
              /\ (Done /\ sha # "") =>
                    /\ failed = <<MsgNoDeployment>>
                    /\ outcome = [p \in Stages |->
                                    IF p = "discover" THEN <<"timeout">>
                                                      ELSE <<>>])
    /\ [][\A p \in Stages :
              (pc = p /\ iterations = 0) =>
                  /\ outcome'[p] = <<"timeout">>
                  /\ attempts' = attempts
                  /\ sleeps' = sleeps
                  /\ resp' = resp]_vars

\* A run with max_timeout 1 and check_interval 2 after discovery gave up.
C18_Witness ==
    /\ Done
    /\ TimeoutBelowInterval
    /\ failed = <<MsgNoDeployment>>
    /\ attempts["discover"] = 0
    /\ sleeps["discover"] = 0

\* The status poller is over and left no environment URL that new URL
\* accepts: no status at all (timeout), an empty URL, or an ill-formed one.
NoUsableUrl ==
    /\ StatusOver
    /\ pc # "extract"
    /\ status = <<>> \/ ~IsAbsoluteUrl(status[1].environment_url)

\* C19: core.setFailed is never called with 'no target_url found in the
\* status check'; a run whose status poller left no status or no usable URL
\* ends through the catch of run() with the message of the raised error
\* (TypeError for an undefined status, Invalid URL for an empty or
\* ill-formed URL) as its last report, with no output and no GET.
C19_MissingUrlMessageNeverReported ==
    /\ MsgNoTargetUrl \notin FailedSet
    /\ NoUsableUrl =>
          /\ Done
          /\ failed # <<>>
          /\ failed[Len(failed)] =
                 (IF status = <<>> THEN MsgTypeError ELSE MsgInvalidUrl)
          /\ outputs = <<>>
          /\ attempts["url"] = 0

\* A first status success without environment URL: the run's only report
\* is the Invalid URL error.
C19_Witness ==
    /\ NoUsableUrl
    /\ status # <<>>
    /\ status[1].environment_url = <<>>
    /\ failed = <<MsgInvalidUrl>>
    /\ attempts["status"] = 1

====
